---- MODULE Spec2Model ----
(***************************************************************************)
(* Model of src/streamlit_app.py: the "Program Manager Checklist" wizard   *)
(* that main() keeps in st.session_state, and the Drive functions of the   *)
(* file (test_upload_permissions, check_folder_access,                     *)
(* create_folder_structure, upload_to_drive).                              *)
(*                                                                         *)
(* The file as Python parses it.  main() is lines 336-592: its step-5      *)
(* branch ends with `photo_ids = []`.  Lines 594-656 start at column 0 and *)
(* are one module-level `if uploaded_photos:` statement; it holds the only *)
(* calls of test_upload_permissions, create_folder_structure and           *)
(* upload_to_drive, the "Upload" buttons, the "Final thoughts" text area   *)
(* and the "Previous" and "Submit" buttons of the last page.  No run of    *)
(* main() executes any of it: on step 5 main() renders the infrastructure  *)
(* widgets and the file uploader and returns.  Run as a script, the        *)
(* statement is evaluated before line 659 calls main() and raises          *)
(* NameError at line 594 (uploaded_photos is a local of main()).           *)
(*                                                                         *)
(* Three specifications:                                                   *)
(*   Spec       one session of main(); an action is one script run of      *)
(*              main(), which reads the Schools table again and in which   *)
(*              at most one button is pressed;                             *)
(*   DriveSpec  two callers of the Drive functions on one file store; an   *)
(*              action is one API request of one caller, answered or       *)
(*              raising, so the requests of two calls interleave;          *)
(*   RaceSpec   the same for two callers that call create_folder_structure *)
(*              only, with the same school and date, and more calls.       *)
(***************************************************************************)
EXTENDS Integers, Sequences, FiniteSets, TLC

VARIABLES
    step,        \* st.session_state.step
    answers,     \* the other keys of st.session_state (Unset when absent)
    schools_df,  \* the table the last run of main() read from Schools!A:D
    drive,       \* the files of the Drive file store, in listing order
    sheet,       \* the rows appended to the spreadsheet (no code appends one)
    resolved,    \* history: (school, date) -> the id the last resolution returned
    given,       \* history: step -> the widget values of its last stored Next
    faults,      \* history: the number of API requests of the callers that raised
    event,       \* history: the last script run or function call
    racers       \* the callers of the Drive functions, request by request

vars ==
    <<step, answers, schools_df, drive, sheet, resolved, given, faults, event,
      racers>>

-----------------------------------------------------------------------------
(* Python values, tagged with their type so that truthiness is Python's.   *)

None == [t |-> "none", v |-> ""]
Unset == [t |-> "unset", v |-> ""]
PyStr(s) == [t |-> "str", v |-> s]
PyInt(n) == [t |-> "int", v |-> n]
PyList(q) == [t |-> "list", v |-> q]
PyDict(f) == [t |-> "dict", v |-> f]
PyDate(y, m, d) == [t |-> "date", v |-> [y |-> y, m |-> m, d |-> d]]
PyTime(h, m) == [t |-> "time", v |-> [h |-> h, m |-> m]]

\* bool(x) as `x and ...` evaluates it (line 382)
Truthy_lenient(x) ==
    CASE x.t = "str" -> x.v # ""
      [] x.t = "int" -> x.v # 0
      [] x.t = "list" -> x.v # <<>>
      [] x.t = "dict" -> DOMAIN x.v # {}
      [] OTHER -> TRUE
Truthy(x) ==
    CASE x.t = "none" -> FALSE
      [] x.t = "str" -> x.v # ""
      [] x.t = "int" -> x.v # 0
      [] x.t = "list" -> x.v # <<>>
      [] x.t = "dict" -> DOMAIN x.v # {}
      [] OTHER -> TRUE

-----------------------------------------------------------------------------
(* The session: the keys each step's Next stores.                          *)

Step1Keys == {"program_manager", "school", "date", "time", "standard",
              "num_students", "subjects"}
Step2Keys == {"lesson_plan", "teaching"}
Step3Keys == {"student_engagement", "strengths", "growth_areas"}
Step4Keys == {"month", "community", "parent_contribution", "resource_details"}
Keys == Step1Keys \cup Step2Keys \cup Step3Keys \cup Step4Keys

StepKeys(k) ==
    CASE k = 1 -> Step1Keys
      [] k = 2 -> Step2Keys
      [] k = 3 -> Step3Keys
      [] k = 4 -> Step4Keys
      [] OTHER -> {}

\* st.session_state.update(data): the keys of data are overwritten
Update_replace(a, data) ==
    [k \in Keys |-> IF k \in DOMAIN data THEN data[k] ELSE Unset]
Update(a, data) ==
    [k \in Keys |-> IF k \in DOMAIN data THEN data[k] ELSE a[k]]

-----------------------------------------------------------------------------
(* The reference table and the widgets of the five pages.  A widget is an  *)
(* input of the run: the sets below are the values the model lets it take. *)

\* read_from_sheet (line 118): the frame of the data rows of Schools!A:D
\* under the columns named by its first row; a cell the range leaves out (a
\* short row, an empty row) is None in the frame
Frame(rows) ==
    [t |-> "frame", cols |-> {"Program Manager", "School Name"}, v |-> rows]

\* read_from_sheet of a range that holds no value at all: result.get('values')
\* falls back to [] and [[]], a frame without rows and without columns
NoColumns == [t |-> "frame", cols |-> {}, v |-> <<>>]

\* what read_from_sheet returns in a run, whatever it returned in the run
\* before: None when the read raised (line 121)
SchoolTables ==
    { Frame(<< [pm |-> PyStr("Asha"), school |-> PyStr("Oak")],
               [pm |-> PyStr("Asha"), school |-> PyStr("Pine")],
               [pm |-> PyStr("Ravi"), school |-> None] >>),
      Frame(<< [pm |-> PyStr("Asha"), school |-> PyStr("Oak")],
               [pm |-> PyStr("Asha"), school |-> None],
               [pm |-> PyStr("Ravi"), school |-> PyStr("Pine")] >>),
      Frame(<< [pm |-> PyStr("Asha"), school |-> PyStr("Oak")],
               [pm |-> None, school |-> None] >>),
      Frame(<< >>),
      NoColumns,
      None }

\* main() renders a page only past its early returns (lines 342-352): the
\* Sheets service is built and the table is read
MainRenders(df) == df # None

\* st.selectbox(options): one of the options, None when there is none
Selectbox(options) == IF options = {} THEN {None} ELSE options

\* an exception that ends the run of main()
Raises(e) == [raised |-> e, v |-> {}]

\* sorted(values): None and a str do not compare (TypeError); the result is
\* the list of the values, of which the model keeps the set (the order fixes
\* the order of the options of the selectbox only)
sorted(values) ==
    IF None \in values /\ values # {None}
    THEN Raises("TypeError")
    ELSE [raised |-> "", v |-> values]

\* sorted(schools_df['Program Manager'].unique()) (line 364)
program_managers(df) ==
    IF "Program Manager" \notin df.cols
    THEN Raises("KeyError")
    ELSE sorted({df.v[i].pm : i \in DOMAIN df.v})

\* sorted(schools_df[schools_df['Program Manager'] == selected_pm]['School Name'].unique())
\* (line 368); the comparison of a cell with None is False for every cell
pm_schools(df, selected_pm) ==
    sorted({df.v[i].school :
              i \in {j \in DOMAIN df.v : selected_pm # None /\ df.v[j].pm = selected_pm}})

VisitDates == {PyDate(2024, 3, 5)}
VisitTimes == {PyTime(10, 15)}
Standards == {PyStr("3")}
StudentCounts == {PyInt(0)}
SubjectChoices == {PyList(<<>>), PyList(<<"Math">>)}

\* the values of the widgets of the page of step 1 in a run that reaches the
\* "Next" button: neither line 364 nor line 368 raised
Step1Widgets(df) ==
    { [program_manager |-> pm, school |-> sc, date |-> d, time |-> tm,
       standard |-> sd, num_students |-> ns, subjects |-> sj] :
        pm \in Selectbox(program_managers(df).v),
        sc \in UNION {Selectbox(pm_schools(df, p).v) : p \in Selectbox(program_managers(df).v)},
        d \in VisitDates, tm \in VisitTimes, sd \in Standards,
        ns \in StudentCounts, sj \in SubjectChoices }

Step1Inputs(df) ==
    IF program_managers(df).raised # "" THEN {}
    ELSE {w \in Step1Widgets(df) :
            /\ pm_schools(df, w.program_manager).raised = ""
            /\ w.school \in Selectbox(pm_schools(df, w.program_manager).v)}

LessonPlans ==
    { PyDict([shared_advance |-> "No", clear_objectives |-> "Partially", aligned_activities |-> "Yes"]) }
Teachings ==
    { PyDict([clear_instructions |-> "Yes", engaging_tone |-> "Yes", classroom_movement |-> "Sometimes",
              hands_on |-> "Yes", outdoor_spaces |-> "No", real_life_examples |-> "Yes"]) }
Step2Inputs == [lesson_plan : LessonPlans, teaching : Teachings]

StudentEngagements ==
    { PyDict([asking_questions |-> "Yes", explaining_work |-> "Sometimes",
              activity_involvement |-> "Yes", peer_help |-> "No"]) }
Step3Inputs ==
    [student_engagement : StudentEngagements,
     strengths : {PyStr("clear voice")},
     growth_areas : {PyStr("")}]

Communities ==
    { PyDict([program_awareness |-> "Yes", updates_provided |-> "Sometimes", parent_engagement |-> "No",
              feedback_mechanism |-> "In Progress", local_resources |-> "Yes"]) }
\* the resource_details text area is rendered only when the radio says "Yes"
Step4Inputs ==
    [month : {PyStr("March")}, community : Communities,
     parent_contribution : {PyStr("No")}]
    \cup
    [month : {PyStr("March")}, community : Communities,
     parent_contribution : {PyStr("Yes")}, resource_details : {PyStr("seeds from a parent")}]

\* data of the step-4 Next (lines 543-549)
Step4Data(w) ==
    LET data == [k \in {"month", "community", "parent_contribution"} |-> w[k]]
    IN IF w.parent_contribution = PyStr("Yes")
       THEN [k \in DOMAIN data \cup {"resource_details"} |->
                IF k = "resource_details" THEN w.resource_details ELSE data[k]]
       ELSE data

-----------------------------------------------------------------------------
(* The Drive file store.  A file is [id, name, parent, mimeType]; the      *)
(* sequence is the store's listing order.  An API call takes and returns   *)
(* rs = [drive, n], the store and the number of calls issued so far, and   *)
(* the call numbered failAt raises (failAt = 0: none does).                *)

ROOT_FOLDER_ID == "1qkrf5GEbhl0eRCtH9I2_zGsD8EbPXlH-"
FolderMime == "application/vnd.google-apps.folder"

\* the identifiers the store hands out, in the order it hands them out
IdPool == << "id01", "id02", "id03", "id04", "id05", "id06", "id07", "id08",
             "id09", "id10", "id11", "id12", "id13", "id14", "id15", "id16" >>

Ids(d) == {d[i].id : i \in DOMAIN d}

\* an identifier no file of the store has
FreshId(d) ==
    IdPool[CHOOSE i \in DOMAIN IdPool :
              /\ IdPool[i] \notin Ids(d)
              /\ \A j \in 1..(i - 1) : IdPool[j] \in Ids(d)]

\* service.files().create(body={name, parents: [parent], mimeType}).execute()
files_create(rs, failAt, name, parent, mime) ==
    IF rs.n + 1 = failAt
    THEN [raised |-> TRUE, drive |-> rs.drive, n |-> rs.n + 1, id |-> ""]
    ELSE LET id == FreshId(rs.drive)
         IN [raised |-> FALSE,
             drive |-> Append(rs.drive, [id |-> id, name |-> name,
                                         parent |-> parent, mimeType |-> mime]),
             n |-> rs.n + 1, id |-> id]

\* service.files().list(q="name='..' and mimeType='..folder' and '..' in parents")
files_list(rs, failAt, name, parent) ==
    IF rs.n + 1 = failAt
    THEN [raised |-> TRUE, drive |-> rs.drive, n |-> rs.n + 1, files |-> <<>>]
    ELSE [raised |-> FALSE, drive |-> rs.drive, n |-> rs.n + 1,
          files |-> SelectSeq(rs.drive,
                              LAMBDA f : /\ f.name = name
                                         /\ f.mimeType = FolderMime
                                         /\ f.parent = parent)]

\* service.files().delete(fileId=id).execute()
files_delete(rs, failAt, id) ==
    IF rs.n + 1 = failAt
    THEN [raised |-> TRUE, drive |-> rs.drive, n |-> rs.n + 1]
    ELSE [raised |-> FALSE, drive |-> SelectSeq(rs.drive, LAMBDA f : f.id # id),
          n |-> rs.n + 1]

\* a call that reads only: files().get(fileId), files().list("'..' in parents")
files_read(rs, failAt) ==
    [raised |-> rs.n + 1 = failAt, drive |-> rs.drive, n |-> rs.n + 1]

\* date.strftime for the formats of create_folder_structure: %Y is the year
\* in decimal without padding, %B the month's name, %m and %d two digits
Digits == <<"0", "1", "2", "3", "4", "5", "6", "7", "8", "9">>
Pad2(n) == Digits[((n \div 10) % 10) + 1] \o Digits[(n % 10) + 1]
RECURSIVE Decimal(_)
Decimal(n) == IF n < 10 THEN Digits[n + 1] ELSE Decimal(n \div 10) \o Digits[(n % 10) + 1]
MonthNames == <<"January", "February", "March", "April", "May", "June", "July",
                "August", "September", "October", "November", "December">>
strftime(d, fmt) ==
    CASE fmt = "%Y" -> Decimal(d.v.y)
      [] fmt = "%B" -> MonthNames[d.v.m]
      [] fmt = "%Y-%m-%d" -> Decimal(d.v.y) \o "-" \o Pad2(d.v.m) \o "-" \o Pad2(d.v.d)

\* one segment of create_folder_structure: list, then take files[0] or create
folder_segment_create(rs, failAt, name, parent) ==
    LET l == files_list(rs, failAt, name, parent)
    IN IF l.raised
       THEN [raised |-> TRUE, drive |-> l.drive, n |-> l.n, id |-> ""]
       ELSE files_create(l, failAt, name, parent, FolderMime)
folder_segment_last(rs, failAt, name, parent) ==
    LET l == files_list(rs, failAt, name, parent)
    IN IF l.raised
       THEN [raised |-> TRUE, drive |-> l.drive, n |-> l.n, id |-> ""]
       ELSE IF l.files # <<>>
            THEN [raised |-> FALSE, drive |-> l.drive, n |-> l.n,
                  id |-> l.files[Len(l.files)].id]
            ELSE files_create(l, failAt, name, parent, FolderMime)
folder_segment(rs, failAt, name, parent) ==
    LET l == files_list(rs, failAt, name, parent)
    IN IF l.raised
       THEN [raised |-> TRUE, drive |-> l.drive, n |-> l.n, id |-> ""]
       ELSE IF l.files # <<>>
            THEN [raised |-> FALSE, drive |-> l.drive, n |-> l.n, id |-> l.files[1].id]
            ELSE files_create(l, failAt, name, parent, FolderMime)

-----------------------------------------------------------------------------
(* The record of a script run of main() or of a call of a Drive function:  *)
(* the button pressed or the function called (op), the page of the run     *)
(* (at; 0 for a function call), the widget values a run read or the        *)
(* arguments of a call (input), whether a Next stored its values and       *)
(* whether a permission test returned True (ok), whether a stored Next     *)
(* replaced a stored value by another one (over), the session a Previous   *)
(* left (pre), whether a Next follows a Previous with only runs without a  *)
(* button between them and reads the                                       *)
(* values last stored for its step (roundtrip; pre is then the session     *)
(* that Previous left), what create_folder_structure returned and what     *)
(* upload_to_drive returned (target, photo_id: <<>> for None, <<id>> for   *)
(* an identifier), the identifier the last resolution of the same path     *)
(* that returned one had returned when the call began (again), the number  *)
(* of API calls issued (calls), the number of the call that raised         *)
(* (failed; 0 when none did), the number of segments of the path the store *)
(* held when the call began (had) and the number of folders the call added *)
(* to the store (made), the file a permission test created (test_file:     *)
(* <<>> when its create raised), and whether no request of another caller  *)
(* fell between the requests of the call (alone).                          *)

NoRun ==
    [op |-> "none", ok |-> TRUE, at |-> 1, input |-> <<>>, roundtrip |-> FALSE,
     over |-> FALSE, pre |-> <<>>, target |-> <<>>, again |-> <<>>, photo_id |-> <<>>,
     calls |-> 0, failed |-> 0, had |-> 0, made |-> 0, test_file |-> <<>>,
     alone |-> TRUE]

Run(op, at) == [NoRun EXCEPT !.op = op, !.at = at]

\* the record of a "Next" of step k that read the widget values w and, when
\* ok, stored data
NextRun(k, w, data, ok) ==
    LET rt == /\ \/ event.op = "previous"
                 \/ event.op = "rerun" /\ event.pre # <<>>
              /\ w = given[k]
    IN [Run("next", k) EXCEPT
           !.ok = ok, !.input = w, !.roundtrip = rt,
           !.over = ok /\ \E f \in DOMAIN data : answers[f] \notin {Unset, data[f]},
           !.pre = IF rt THEN event.pre ELSE <<>>]

\* the (school, date) pairs create_folder_structure is called with
ResolveKeys ==
    {<<sc, d>> : sc \in {PyStr("Oak"), PyStr("Pine")}, d \in VisitDates}

Init ==
    /\ step = 1
    /\ answers = [k \in Keys |-> Unset]
    /\ schools_df = None
    /\ drive = <<>>
    /\ sheet = <<>>
    /\ resolved = [k \in ResolveKeys |-> <<>>]
    /\ given = [k \in 1..4 |-> <<>>]
    /\ faults = 0
    /\ event = NoRun
    /\ racers = <<>>

-----------------------------------------------------------------------------
(* main(), lines 336-592.                                                  *)

\* the environment of a run of main(): whether the Drive credentials can be
\* built (up), and whether the one Drive call of the run raises (failAt = 1)
MainEnvs ==
    { [up |-> TRUE, failAt |-> 0], [up |-> TRUE, failAt |-> 1], [up |-> FALSE, failAt |-> 0] }

\* get_google_drive_service: the service, or None (up = FALSE) when the
\* credentials cannot be built; it reads the root folder once, and a read
\* that raises is reported and the service returned all the same
get_google_drive_service_probe(rs, failAt, up) ==
    IF up
    THEN [service |-> TRUE,
          drive |-> files_create(rs, failAt, "test.txt", ROOT_FOLDER_ID, "text/plain").drive,
          n |-> rs.n + 1]
    ELSE [service |-> FALSE, drive |-> rs.drive, n |-> rs.n]
get_google_drive_service(rs, failAt, up) ==
    IF up
    THEN [service |-> TRUE, drive |-> rs.drive, n |-> files_read(rs, failAt).n]
    ELSE [service |-> FALSE, drive |-> rs.drive, n |-> rs.n]

\* lines 339-354, the part every run of main() that renders a page shares:
\* the Drive service is built (line 346; main() never uses it), the table
\* is read (line 350: df is what this run reads) and the page of the step
\* is rendered; e is the record of what the page did
MainRun(env, df, e) ==
    LET svc == get_google_drive_service([drive |-> drive, n |-> 0], env.failAt, env.up)
    IN /\ MainRenders(df)
       /\ schools_df' = df
       /\ drive' = svc.drive
       /\ event' = [e EXCEPT !.calls = svc.n,
                             !.failed = IF env.failAt \in 1..svc.n THEN env.failAt ELSE 0]
       /\ UNCHANGED <<sheet, resolved, faults, racers>>

\* a run of main() that returns before it renders a page: the Sheets service
\* is None (line 343, before the Drive service is built), or read_from_sheet
\* returned None (line 352)
early_return ==
    /\ \E sheets \in BOOLEAN, env \in MainEnvs :
         LET svc == IF sheets
                    THEN get_google_drive_service([drive |-> drive, n |-> 0],
                                                  env.failAt, env.up)
                    ELSE [service |-> FALSE, drive |-> drive, n |-> 0]
         IN /\ drive' = svc.drive
            /\ event' = [Run("return", step) EXCEPT
                            !.ok = sheets, !.calls = svc.n,
                            !.failed = IF env.failAt \in 1..svc.n THEN env.failAt ELSE 0]
    /\ schools_df' = None
    /\ UNCHANGED <<step, answers, given, sheet, resolved, faults, racers>>

\* the step a "Next" of step k sets (lines 392, 454, 495, 551)
NextStep_skip(k) == k + 2
NextStep(k) == k + 1

\* the step a "Previous" of step k sets (lines 446, 486, 539)
PrevStep_two(k) == k - 2
PrevStep(k) == k - 1

\* the condition of line 382
Step1Valid_nosubjects(w) ==
    /\ Truthy(w.program_manager)
    /\ Truthy(w.school)
    /\ Truthy(w.date)
    /\ Truthy(w.time)
    /\ Truthy(w.standard)
Step1Valid(w) ==
    /\ Truthy(w.program_manager)
    /\ Truthy(w.school)
    /\ Truthy(w.date)
    /\ Truthy(w.time)
    /\ Truthy(w.standard)
    /\ Truthy(w.subjects)

\* "Next" of step 1 (lines 381-395)
next_1 ==
    /\ step = 1
    /\ \E df \in {t \in SchoolTables : MainRenders(t)} :
         \E w \in Step1Inputs(df), env \in MainEnvs :
            IF Step1Valid(w)
            THEN /\ answers' = Update(answers, w)
                 /\ step' = NextStep(1)
                 /\ given' = [given EXCEPT ![1] = w]
                 /\ MainRun(env, df, NextRun(1, w, w, TRUE))
            ELSE /\ MainRun(env, df, NextRun(1, w, w, FALSE))
                 /\ UNCHANGED <<answers, step, given>>

\* the exceptions a run of the page of step 1 can end with before it renders
\* its "Next" button: line 364, or line 368 for a program manager selected
Step1Errors(df) ==
    IF program_managers(df).raised # ""
    THEN {program_managers(df).raised}
    ELSE {pm_schools(df, pm).raised : pm \in Selectbox(program_managers(df).v)} \ {""}

\* a run of the page of step 1 that ends with an exception (lines 364, 368)
error_1 ==
    /\ step = 1
    /\ \E df \in {t \in SchoolTables : MainRenders(t)} :
         \E e \in Step1Errors(df), env \in MainEnvs :
            MainRun(env, df, [Run("error", 1) EXCEPT !.ok = FALSE, !.input = <<e>>])
    /\ UNCHANGED <<step, answers, given>>

\* a "Previous" button: st.session_state.step = k - 1
Previous_forget(k) ==
    /\ step = k
    /\ step' = PrevStep(k)
    /\ answers' = [f \in Keys |-> IF f \in StepKeys(k) THEN Unset ELSE answers[f]]
    /\ \E df \in SchoolTables, env \in MainEnvs :
         MainRun(env, df,
                 [Run("previous", k) EXCEPT !.pre = [step |-> step, answers |-> answers]])
    /\ UNCHANGED given
Previous(k) ==
    /\ step = k
    /\ step' = PrevStep(k)
    /\ \E df \in SchoolTables, env \in MainEnvs :
         MainRun(env, df,
                 [Run("previous", k) EXCEPT !.pre = [step |-> step, answers |-> answers]])
    /\ UNCHANGED <<answers, given>>

\* a "Next" button of steps 2 to 4: update(data), then step = k + 1
Advance_nostore(k, w, data) ==
    /\ step = k
    /\ answers' = answers
    /\ step' = NextStep(k)
    /\ given' = [given EXCEPT ![k] = w]
    /\ \E df \in SchoolTables, env \in MainEnvs : MainRun(env, df, NextRun(k, w, data, TRUE))
Advance(k, w, data) ==
    /\ step = k
    /\ answers' = Update(answers, data)
    /\ step' = NextStep(k)
    /\ given' = [given EXCEPT ![k] = w]
    /\ \E df \in SchoolTables, env \in MainEnvs : MainRun(env, df, NextRun(k, w, data, TRUE))

\* a run of the page of step k in which no button is pressed: the run that
\* st.rerun() starts after a button (lines 393, 447, 455, 487, 496, 540,
\* 552), or one a changed widget starts; the page of step 1 is rendered to
\* its end when neither line 364 nor line 368 raises.  The record keeps the
\* session a Previous left while only such runs follow it.
Rerun(k) ==
    /\ step = k
    /\ \E df \in {t \in SchoolTables : MainRenders(t)}, env \in MainEnvs :
         /\ k = 1 => Step1Inputs(df) # {}
         /\ MainRun(env, df,
                    [Run("rerun", k) EXCEPT
                        !.pre = IF \/ event.op = "previous"
                                   \/ event.op = "rerun" /\ event.at = k
                                THEN event.pre ELSE <<>>])
    /\ UNCHANGED <<step, answers, given>>

\* lines 358-395, no button pressed
rerun_1 == Rerun(1)

\* lines 398-455, no button pressed
rerun_2 == Rerun(2)

\* lines 458-496, no button pressed
rerun_3 == Rerun(3)

\* lines 499-552, no button pressed
rerun_4 == Rerun(4)

\* lines 445-447
prev_2 == Previous(2)

\* lines 449-455
next_2 == \E w \in Step2Inputs : Advance(2, w, w)

\* lines 485-487
prev_3 == Previous(3)

\* lines 489-496
next_3 == \E w \in Step3Inputs : Advance(3, w, w)

\* lines 538-540
prev_4 == Previous(4)

\* lines 542-552
next_4 == \E w \in Step4Inputs : Advance(4, w, Step4Data(w))

\* The page of step 5 (lines 555-592): the subject, the four statuses and
\* the maintenance notes of the subject Agriculture, and the file uploader.

Photo(name, type) == [name |-> name, type |-> type]
\* st.file_uploader(..., accept_multiple_files=True): the files selected
PhotoSelections ==
    { <<>>, <<Photo("a.jpg", "image/jpeg")>> }

AgStatus ==
    PyDict([compost_pit |-> "Installed", waste_bins |-> "Not Installed",
            tools |-> "In Progress", fertiliser |-> "Needed"])
Maintenance == PyDict([k \in {"Compost Pit"} |-> "new lid"])
Step5Inputs ==
    [subject : {PyStr("Agriculture")}, ag_status : {AgStatus},
     maintenance : {Maintenance}, uploaded_photos : PhotoSelections]
    \cup
    [subject : {PyStr("Pottery")}, uploaded_photos : PhotoSelections]

\* a run of the page of step 5: the widgets are read into locals of main(),
\* photo_ids is set to [] (line 592) and main() returns
rerun_5 ==
    /\ step = 5
    /\ \E w \in Step5Inputs, df \in SchoolTables, env \in MainEnvs :
         MainRun(env, df, [Run("rerun", 5) EXCEPT !.input = w])
    /\ UNCHANGED <<step, answers, given>>

Next ==
    \/ early_return
    \/ rerun_1 \/ next_1 \/ error_1
    \/ rerun_2 \/ prev_2 \/ next_2
    \/ rerun_3 \/ prev_3 \/ next_3
    \/ rerun_4 \/ prev_4 \/ next_4
    \/ rerun_5

Spec == Init /\ [][Next]_vars

-----------------------------------------------------------------------------
(* Callers of the Drive functions.  Streamlit runs the script of every     *)
(* browser session in a thread of its own, and all of them work on the one *)
(* Drive store: a call of a function waits for the store at each of its    *)
(* API requests, and the requests of other callers fall between them.      *)
(* Each action below is one API request of one caller, which the store     *)
(* answers or which raises.  Under DriveSpec a caller calls any of         *)
(* test_upload_permissions, create_folder_structure and upload_to_drive;   *)
(* under RaceSpec both callers call create_folder_structure with the same  *)
(* school and date.                                                        *)

\* the requests that raise, and the calls the callers make in all (MaxCalls
\* under DriveSpec, MaxRuns under RaceSpec)
MaxFaults == 2
MaxCalls == 2
MaxRuns == 3
Racers == {1, 2}

NonFolders(d) == {i \in DOMAIN d : d[i].mimeType # FolderMime}
Folders(d) == {i \in DOMAIN d : d[i].mimeType = FolderMime}

\* the names of the four folders of a visit, outermost first (lines 174,
\* 198, 223 and 248)
path_segments(school_name, visit_date) ==
    <<school_name.v, strftime(visit_date, "%Y"), strftime(visit_date, "%B"),
      strftime(visit_date, "%Y-%m-%d")>>

\* the first listed folder of d called name under parent ("" when parent is
\* "" or d lists none)
FirstUnder(d, name, parent) ==
    LET here == {i \in Folders(d) : d[i].name = name /\ d[i].parent = parent}
    IN IF parent = "" \/ here = {} THEN ""
       ELSE d[CHOOSE i \in here : \A j \in here : i <= j].id

\* the number of leading segments of the four-segment path the store d
\* holds, each under the first listed folder of the segment before it
Present(d, path, parent) ==
    LET school == FirstUnder(d, path[1], parent)
        year == FirstUnder(d, path[2], school)
        month == FirstUnder(d, path[3], year)
        visit == FirstUnder(d, path[4], month)
    IN Cardinality({k \in 1..4 : <<school, year, month, visit>>[k] # ""})

\* a caller outside the Drive functions: the arguments of its last call of
\* create_folder_structure (args), the number of calls it made (runs), what
\* its last call of create_folder_structure returned (target), and the
\* number of folders its last list call returned (listed).  Inside a call it
\* also holds the id the last resolution of args that returned one had
\* returned when this call began (again), the number of segments of the
\* path the store held then (had), the numbers of requests this call has
\* issued (calls) and of folders it has created (made), the id of the file
\* its test_upload_permissions created (file), and whether no request of
\* another caller fell between its first request and now (alone).
Outside(args, runs, target) ==
    [pc |-> "idle", seg |-> 1, parent |-> ROOT_FOLDER_ID, target |-> target,
     args |-> args, runs |-> runs, listed |-> 0,
     again |-> <<>>, had |-> 0, calls |-> 0, made |-> 0, file |-> "", alone |-> TRUE]

\* the number of calls begun so far
CallsBegun == racers[1].runs + racers[2].runs

\* the state before the first call; the caller s calls
\* create_folder_structure with the arguments K[s]
CallersInit(K) ==
    /\ step = 1
    /\ answers = [f \in Keys |-> Unset]
    /\ schools_df = None
    /\ drive = <<>>
    /\ sheet = <<>>
    /\ resolved = [q \in ResolveKeys |-> <<>>]
    /\ given = [j \in 1..4 |-> <<>>]
    /\ faults = 0
    /\ event = NoRun
    /\ racers = [s \in Racers |-> Outside(K[s], 0, <<>>)]

\* the callers after a request of the caller s, whose record becomes r: the
\* request fell between the requests of every other call in progress
after_request(s, r) ==
    [o \in Racers |-> IF o = s THEN r
                      ELSE [racers[o] EXCEPT !.alone = racers[o].pc = "idle"]]

\* the call of the caller s, whose record is r, goes on with its next request
goes_on(s, r) ==
    /\ racers' = after_request(s, r)
    /\ event' = NoRun
    /\ UNCHANGED resolved

\* the record of a call of the function op that the caller whose record is r
\* made; failed is the number of the request that raised (0: none did)
CallRun(op, r, failed) ==
    [Run(op, 0) EXCEPT !.calls = r.calls, !.failed = failed, !.alone = r.alone]

\* the call of create_folder_structure of the caller s, whose record is r,
\* returns target (<<>> for None)
returns(s, r, target, failed) ==
    /\ racers' = after_request(s, Outside(r.args, r.runs, target))
    /\ resolved' = IF target # <<>> THEN [resolved EXCEPT ![r.args] = target] ELSE resolved
    /\ event' = [CallRun("resolve", r, failed) EXCEPT
                    !.input = r.args,
                    !.target = target,
                    !.again = IF target # <<>> THEN r.again ELSE <<>>,
                    !.had = r.had,
                    !.made = r.made]

\* `return None` of lines 167 and 275: the request numbered r.calls raised
returns_parent_to(s, r) == returns(s, r, <<r.parent>>, r.calls)
returns_None_to(s, r) == returns(s, r, <<>>, r.calls)

\* the caller has the id of its segment: on to the next segment, or return
\* (lines 190-194, 215-219, 240-244, 267-271)
segment_done_root(s, r, id) ==
    IF r.seg = 4
    THEN returns(s, r, <<id>>, 0)
    ELSE goes_on(s, [r EXCEPT !.pc = "list", !.seg = @ + 1, !.parent = ROOT_FOLDER_ID])
segment_done(s, r, id) ==
    IF r.seg = 4
    THEN returns(s, r, <<id>>, 0)
    ELSE goes_on(s, [r EXCEPT !.pc = "list", !.seg = @ + 1, !.parent = id])

\* one request of a caller: at most MaxFaults requests raise (failAt = 1:
\* this one does), and a request leaves the session of main() as it is
Request(failAt) ==
    /\ failAt # 0 => faults < MaxFaults
    /\ faults' = IF failAt # 0 THEN faults + 1 ELSE faults
    /\ UNCHANGED <<step, answers, schools_df, sheet, given>>

\* a call of create_folder_structure(service, args[1], args[2]) begins: the
\* get of the access check (lines 128-131); when it raises,
\* check_folder_access returns False and the call returns None (lines
\* 166-167)
access_get(s, args) ==
    /\ racers[s].pc = "idle"
    /\ \E failAt \in 0..1 :
         LET g == files_read([drive |-> drive, n |-> 0], failAt)
             r == [Outside(args, racers[s].runs + 1, <<>>) EXCEPT
                      !.pc = "access",
                      !.again = resolved[args],
                      !.had = Present(drive, path_segments(args[1], args[2]),
                                      ROOT_FOLDER_ID),
                      !.calls = 1]
         IN /\ Request(failAt)
            /\ drive' = g.drive
            /\ IF g.raised THEN returns_None_to(s, r) ELSE goes_on(s, r)

\* the list of the children of the root, the second request of the access
\* check (lines 136-141); when it raises the call returns None
access_list(s) ==
    /\ racers[s].pc = "access"
    /\ \E failAt \in 0..1 :
         LET l == files_read([drive |-> drive, n |-> 0], failAt)
             r == [racers[s] EXCEPT !.calls = @ + 1]
         IN /\ Request(failAt)
            /\ drive' = l.drive
            /\ IF l.raised
               THEN returns_None_to(s, r)
               ELSE goes_on(s, [r EXCEPT !.pc = "list"])

\* the list call of the caller's segment and the branch on its result
\* (lines 172-181 and 190-194): a caller whose list raises returns None
\* (lines 273-275), one that issues the list call only has found its
\* folder, the others are about to create it
segment_list(s) ==
    /\ racers[s].pc = "list"
    /\ \E failAt \in 0..1 :
         LET rs == [drive |-> drive, n |-> 0]
             name == path_segments(racers[s].args[1], racers[s].args[2])[racers[s].seg]
             l == files_list(rs, failAt, name, racers[s].parent)
             f == folder_segment(rs, failAt, name, racers[s].parent)
             r == [racers[s] EXCEPT !.calls = @ + 1]
         IN /\ Request(failAt)
            /\ drive' = l.drive
            /\ IF l.raised
               THEN returns_None_to(s, r)
               ELSE IF f.n = l.n
                    THEN segment_done(s, [r EXCEPT !.listed = Len(l.files)], f.id)
                    ELSE goes_on(s, [r EXCEPT !.pc = "create", !.listed = Len(l.files)])

\* the create call of the caller's segment (lines 182-188); when it raises
\* the store is as before and the call returns None
segment_create(s) ==
    /\ racers[s].pc = "create"
    /\ \E failAt \in 0..1 :
         LET name == path_segments(racers[s].args[1], racers[s].args[2])[racers[s].seg]
             c == files_create([drive |-> drive, n |-> 0], failAt, name, racers[s].parent,
                               FolderMime)
             r == [racers[s] EXCEPT !.calls = @ + 1]
         IN /\ Request(failAt)
            /\ drive' = c.drive
            /\ IF c.raised
               THEN returns_None_to(s, r)
               ELSE segment_done(s, [r EXCEPT !.made = @ + 1], c.id)

\* the call of test_upload_permissions of the caller s, whose record is r,
\* returns ok (lines 106 and 110)
test_returns(s, r, ok, failed) ==
    /\ racers' = after_request(s, Outside(r.args, r.runs, r.target))
    /\ event' = [CallRun("test", r, failed) EXCEPT
                    !.ok = ok,
                    !.test_file = IF r.file = "" THEN <<>> ELSE <<r.file>>]
    /\ UNCHANGED resolved

\* a call of test_upload_permissions(service, ROOT_FOLDER_ID) begins: the
\* create of test.txt (lines 94-99); when it raises the call returns False
\* (lines 108-110)
test_create(s) ==
    /\ racers[s].pc = "idle"
    /\ CallsBegun < MaxCalls
    /\ \E failAt \in 0..1 :
         LET c == files_create([drive |-> drive, n |-> 0], failAt, "test.txt",
                               ROOT_FOLDER_ID, "text/plain")
             r == [Outside(racers[s].args, racers[s].runs + 1, racers[s].target) EXCEPT
                      !.pc = "delete", !.calls = 1, !.file = c.id]
         IN /\ Request(failAt)
            /\ drive' = c.drive
            /\ IF c.raised THEN test_returns(s, r, FALSE, 1) ELSE goes_on(s, r)

\* the delete of the file the caller's test created (line 104), after which
\* the call returns True (line 106); when it raises the call returns False
\* (lines 108-110)
test_delete(s) ==
    /\ racers[s].pc = "delete"
    /\ \E failAt \in 0..1 :
         LET d == files_delete([drive |-> drive, n |-> 0], failAt, racers[s].file)
             r == [racers[s] EXCEPT !.calls = @ + 1]
         IN /\ Request(failAt)
            /\ drive' = d.drive
            /\ test_returns(s, r, ~d.raised, IF d.raised THEN r.calls ELSE 0)

\* the file names upload_to_drive is called with, and the folders: the
\* identifiers create_folder_structure returned
Filenames == {"101507_a.jpg"}
UploadFolders == {resolved[k][1] : k \in {q \in ResolveKeys : resolved[q] # <<>>}}

\* a call of upload_to_drive(service, file_data, filename, 'image/jpeg',
\* folder_id): its one request, the create of lines 324-329, and its return
\* of the file's id (line 331) or of None (lines 332-334)
upload_to_drive(s) ==
    /\ racers[s].pc = "idle"
    /\ CallsBegun < MaxCalls
    /\ \E filename \in Filenames, folder_id \in UploadFolders, failAt \in 0..1 :
         LET c == files_create([drive |-> drive, n |-> 0], failAt, filename, folder_id,
                               "image/jpeg")
             r == [Outside(racers[s].args, racers[s].runs + 1, racers[s].target) EXCEPT !.calls = 1]
         IN /\ Request(failAt)
            /\ drive' = c.drive
            /\ racers' = after_request(s, Outside(r.args, r.runs, r.target))
            /\ event' = [CallRun("upload", r, IF c.raised THEN 1 ELSE 0) EXCEPT
                            !.input = <<filename, folder_id>>,
                            !.photo_id = IF c.raised THEN <<>> ELSE <<c.id>>]
            /\ UNCHANGED resolved

\* a call of create_folder_structure with the caller's school and date begins
create_folder_structure(s) ==
    /\ CallsBegun < MaxCalls
    /\ access_get(s, racers[s].args)

\* each caller has its school and date, the same as the other's or not
DriveInit == \E K \in [Racers -> ResolveKeys] : CallersInit(K)

DriveNext ==
    \E s \in Racers :
        \/ test_create(s) \/ test_delete(s)
        \/ create_folder_structure(s) \/ access_list(s) \/ segment_list(s)
        \/ segment_create(s)
        \/ upload_to_drive(s)

DriveSpec == DriveInit /\ [][DriveNext]_vars

\* a call of create_folder_structure with the caller's school and date begins
resolve_enter(s) ==
    /\ CallsBegun < MaxRuns
    /\ access_get(s, racers[s].args)

\* both callers have the same school
RaceInit == \E k \in ResolveKeys : CallersInit([s \in Racers |-> k])

RaceNext ==
    \E s \in Racers :
        resolve_enter(s) \/ access_list(s) \/ segment_list(s) \/ segment_create(s)

RaceSpec == RaceInit /\ [][RaceNext]_vars

-----------------------------------------------------------------------------
(* The wizard: steps, validation, stored answers (Spec).                   *)

TotalSteps == 5

\* C1: in every reachable state, after any sequence of Next and Previous
\* (main() offers no Submit), the current step satisfies
\* 1 <= step <= TotalSteps.
C1_StepInRange == step \in 1..TotalSteps

\* a session that stored its four steps is on the last page, which a run
\* rendered
C1_Witness ==
    /\ step = TotalSteps
    /\ event.op = "rerun"
    /\ given[2] # <<>> /\ given[4] # <<>>

\* the fields line 382 requires, and what "missing or empty" means for them
RequiredStep1 == {"program_manager", "school", "date", "time", "standard", "subjects"}
Missing(v) == v \in {None, PyStr(""), PyList(<<>>)}

\* C2: a Next of step 1 that reads a missing or empty required field leaves
\* the step at 1 and the stored answers as they were.
C2_InvalidAdvanceKeepsSession ==
    [][ ( /\ event'.op = "next"
          /\ event'.at = 1
          /\ \E f \in RequiredStep1 : Missing(event'.input[f]) )
        => ( step = 1 /\ step' = 1 /\ answers' = answers /\ ~event'.ok ) ]_vars

\* a session that holds stored answers is back on step 1 and its Next, read
\* with no subject selected, was refused
C2_Witness ==
    /\ event.op = "next" /\ event.at = 1 /\ ~event.ok
    /\ event.input.subjects = PyList(<<>>)
    /\ event.input.school = PyStr("Pine")
    /\ answers["school"] = PyStr("Oak")
    /\ step = 1

\* C3: a Next of step k < TotalSteps that passes validation stores the values
\* it read, overwriting the earlier value of each of these fields, leaves the
\* fields of every other step as they were, and sets the step to k + 1.
C3_AdvanceStoresAndSteps ==
    [][ (event'.op = "next" /\ event'.ok)
        => LET k == event'.at
               w == event'.input
           IN /\ k = step
              /\ k \in 1..(TotalSteps - 1)
              /\ step' = k + 1
              /\ DOMAIN w \subseteq StepKeys(k)
              /\ \A f \in DOMAIN w : answers'[f] = w[f]
              /\ \A f \in Keys \ StepKeys(k) : answers'[f] = answers[f] ]_vars

\* step 1 was stored again with another school while the answers of step 2
\* are stored: the school is overwritten, the answers of step 2 are there
C3_Witness ==
    /\ event.op = "next" /\ event.ok /\ event.at = 1 /\ event.over
    /\ event.input.school = PyStr("Pine")
    /\ answers["school"] = PyStr("Pine")
    /\ answers["lesson_plan"] # Unset
    /\ step = 2

\* C4: a Previous of step k sets the step to max(k - 1, 1) and leaves every
\* stored answer as it was, those of the step being left included.
C4_RetreatKeepsAnswers ==
    [][ event'.op = "previous"
        => LET k == event'.at
           IN /\ k = step
              /\ step' = IF k - 1 > 1 THEN k - 1 ELSE 1
              /\ answers' = answers ]_vars

\* step 3 is left by Previous while its own answers are stored
C4_Witness ==
    /\ event.op = "previous" /\ event.at = 3
    /\ step = 2
    /\ answers["strengths"] # Unset

\* C5: from a state with step = k > 1, a Previous followed, with only runs
\* in which no button is pressed between the two, by a Next that reads the
\* values last given for step k - 1 ends with the stored answers and the
\* step the session had before the Previous.
C5_RetreatAdvanceRoundTrip ==
    (event.op = "next" /\ event.roundtrip)
    => ( /\ event.ok
         /\ answers = event.pre.answers
         /\ step = event.pre.step )

\* the round trip 4 -> 3 -> 4 of a session that holds the answers of step 4
C5_Witness ==
    /\ event.op = "next" /\ event.roundtrip /\ event.at = 3
    /\ step = 4
    /\ answers["strengths"] # Unset

\* the school names the table df holds for the program manager pm
SchoolsOf(df, pm) ==
    {df.v[i].school : i \in {j \in DOMAIN df.v : df.v[j].pm = pm}} \ {None, PyStr("")}

\* C21: in every run of main(), with the table that run reads: a Next of
\* step 1 read with a program manager for whom the table holds no school
\* (or with a table without rows) has read no school and is refused, the
\* step staying 1; a run of the page that ends with an exception leaves the
\* step at 1; the run in which a session leaves step 1 is a Next that
\* stores a school the table names for the program manager stored; and a
\* session past step 1 holds a school that is neither None nor empty.
C21_NoSchoolNoAdvance ==
    [][ /\ (/\ event'.op = "next" /\ event'.at = 1
            /\ SchoolsOf(schools_df', event'.input.program_manager) = {})
           => (event'.input.school = None /\ ~event'.ok /\ step = 1 /\ step' = 1)
        /\ event'.op = "error" => (step = 1 /\ step' = 1)
        /\ (step = 1 /\ step' # 1)
           => (/\ event'.op = "next" /\ event'.ok
               /\ answers'["school"] \in SchoolsOf(schools_df', answers'["program_manager"]))
        /\ step' > 1 => answers'["school"] \notin {Unset, None, PyStr("")}
      ]_vars

\* the Next of step 1 was pressed with the manager who has no school
C21_Witness ==
    /\ event.op = "next" /\ event.at = 1
    /\ event.input.program_manager = PyStr("Ravi")
    /\ SchoolsOf(schools_df, PyStr("Ravi")) = {}
    /\ ~event.ok

\* the keys the Next of step j stores in every session (resource_details is
\* stored only with the answer "Yes")
StoredBy(j) ==
    IF j = 4 THEN {"month", "community", "parent_contribution"} ELSE StepKeys(j)

\* C22: a session on step k holds, for every step j < k, a stored value
\* for each key the Next of step j stores, namely the value that Next read
\* last.
C22_EarlierStepsStored ==
    \A j \in 1..(step - 1) : \A f \in StoredBy(j) :
        /\ answers[f] # Unset
        /\ answers[f] = given[j][f]

\* a session that was on step 4 is back on step 3 after a Previous
C22_Witness ==
    /\ event.op = "previous" /\ event.at = 4
    /\ step = 3
    /\ \A f \in StoredBy(1) \cup StoredBy(2) \cup StoredBy(3) : answers[f] # Unset

\* C13: a session that has not pressed Submit has caused no side effect in
\* the external stores: whatever step it is abandoned at, no folder and no
\* file has been added to the file store and no row to the sheet.
C13_NoSideEffectBeforeSubmit ==
    Folders(drive) = {} /\ NonFolders(drive) = {} /\ sheet = <<>>

\* a session is on the last page with a photo selected, and the run that
\* rendered the page issued its Drive call
C13_Witness ==
    /\ step = TotalSteps
    /\ event.op = "rerun"
    /\ event.input.uploaded_photos # <<>>
    /\ event.calls = 1

\* C20: a run that adds a folder or a file to the file store or a row to
\* the sheet is a run of the page of the last step: the step is TotalSteps
\* when the run begins.
C20_OnlyAtLastStep ==
    [][ ( \/ Cardinality(Folders(drive')) # Cardinality(Folders(drive))
          \/ Cardinality(NonFolders(drive')) # Cardinality(NonFolders(drive))
          \/ sheet' # sheet )
        => step = TotalSteps ]_vars

\* a run of a page before the last one issued its Drive call and stored its
\* answers
C20_Witness ==
    /\ event.op = "next" /\ event.ok /\ event.at < TotalSteps
    /\ event.calls = 1 /\ event.failed = 0

-----------------------------------------------------------------------------
(* Folder provisioning (DriveSpec; C10 and C16 under RaceSpec).            *)

\* the folders called name under parent
FoldersNamed(d, name, parent) ==
    {d[i].id : i \in {j \in DOMAIN d : /\ d[j].name = name
                                       /\ d[j].mimeType = FolderMime
                                       /\ d[j].parent = parent}}

\* the path [school, year, month, isoDate] of a visit on 5 March 2024
PathOf(school) == <<school.v, "2024", "March", "2024-03-05">>

\* the store holds one folder for each segment of the path under the folder
\* of the segment before it (the root for the first), and id is the last
RECURSIVE OneFolderPerSegment(_, _, _, _)
OneFolderPerSegment(d, path, parent, id) ==
    IF path = <<>>
    THEN parent = id
    ELSE LET here == FoldersNamed(d, Head(path), parent)
         IN /\ Cardinality(here) = 1
            /\ OneFolderPerSegment(d, Tail(path), CHOOSE x \in here : TRUE, id)

\* C10: when no request has raised, a resolution of the path of a (school,
\* date) that begins after one that returned an identifier for the same
\* (school, date), that has no request of another caller between its own
\* and that returns an identifier, returns the identifier the one before it
\* returned, and the store then holds exactly one folder for each of the
\* four segments under its parent.
C10_ResolveIdempotent ==
    (/\ event.op = "resolve" /\ event.target # <<>> /\ event.again # <<>>
     /\ event.alone /\ faults = 0)
    => /\ event.target = event.again
       /\ event.input[2] = PyDate(2024, 3, 5)
       /\ OneFolderPerSegment(drive, PathOf(event.input[1]), ROOT_FOLDER_ID,
                              event.target[1])

\* C11: when the store already lists a folder of a segment's name under the
\* given parent, the get-or-create step of lines 172-194 (and 196-271)
\* issues its list call only, leaves the store as it is and returns the id
\* of a folder of that name under that parent; a resolution whose four
\* segments all exist issues the two calls of the access check and the four
\* list calls, and adds no folder.
C11_ExistingFolderIsReturned ==
    /\ \A i \in Folders(drive) : \A failAt \in {0, 2} :
          LET r == folder_segment([drive |-> drive, n |-> 0], failAt,
                                  drive[i].name, drive[i].parent)
          IN /\ ~r.raised
             /\ r.n = 1
             /\ r.drive = drive
             /\ r.id \in FoldersNamed(drive, drive[i].name, drive[i].parent)
    /\ (event.op = "resolve" /\ event.target # <<>> /\ event.had = 4)
       => (event.calls = 2 + 4 /\ event.made = 0)

\* a resolution that found all four folders of its path
C11_Witness ==
    event.op = "resolve" /\ event.target # <<>> /\ event.had = 4 /\ event.made = 0

\* C16: when a request of an earlier resolution has raised, a resolution
\* that begins on a store holding some but not all segments of its path,
\* that has no request of another caller between its own and that returns
\* an identifier, adds to the store one folder for each segment of the path
\* the store did not hold and none for a segment it held, and the store
\* then holds exactly one folder for each of the four segments.
C16_PartialCreationConverges ==
    (/\ event.op = "resolve" /\ event.target # <<>>
     /\ event.had \in 1..3 /\ faults > 0 /\ event.alone)
    => /\ event.made = 4 - event.had
       /\ OneFolderPerSegment(drive, PathOf(event.input[1]), ROOT_FOLDER_ID,
                              event.target[1])

\* the file of the store d that has the identifier id
FileOf(d, id) == d[CHOOSE i \in DOMAIN d : d[i].id = id]

\* C17: the identifier a resolution returns for a visit on 5 March 2024 is
\* that of a folder named "2024-03-05" whose parent is a folder named
\* "March", whose parent is a folder named "2024", whose parent is a folder
\* named as the school, whose parent is the root.
C17_TargetIsVisitFolder ==
    (event.op = "resolve" /\ event.target # <<>>)
    => LET visit == FileOf(drive, event.target[1])
           month == FileOf(drive, visit.parent)
           year == FileOf(drive, month.parent)
           school == FileOf(drive, year.parent)
       IN /\ event.input[2] = PyDate(2024, 3, 5)
          /\ event.target[1] \in Ids(drive)
          /\ visit.name = "2024-03-05" /\ visit.mimeType = FolderMime
          /\ visit.parent \in Ids(drive)
          /\ month.name = "March" /\ month.mimeType = FolderMime
          /\ month.parent \in Ids(drive)
          /\ year.name = "2024" /\ year.mimeType = FolderMime
          /\ year.parent \in Ids(drive)
          /\ school.name = event.input[1].v /\ school.mimeType = FolderMime
          /\ school.parent = ROOT_FOLDER_ID

\* a resolution for the school Pine returned an identifier while the store
\* also holds the folders of the school Oak
C17_Witness ==
    /\ event.op = "resolve" /\ event.target # <<>>
    /\ event.input[1] = PyStr("Pine")
    /\ \E i \in Folders(drive) : drive[i].name = "Oak"

\* C18: when the get or the list of the root folder raises (the first and
\* the second API call of create_folder_structure), the function returns
\* None, the call that raised is its last call, and no folder was added.
C18_RootFailureIsFatal ==
    (event.op = "resolve" /\ event.failed \in {1, 2})
    => (event.target = <<>> /\ event.calls = event.failed /\ event.made = 0)

\* the list of the root folder raised in a resolution, which ended there,
\* while the store holds a part of the path
C18_Witness ==
    /\ event.op = "resolve" /\ event.failed = 2
    /\ event.target = <<>> /\ event.calls = 2
    /\ event.had \in 1..3

\* C19: a resolution in which one list or create call of the four segments
\* raises once (a call after the two of the access check) still returns the
\* identifier of the visit folder, the call being tried again.
C19_TransientRetried ==
    (event.op = "resolve" /\ event.failed > 2) => event.target # <<>>

\* C24: once a call of the upload-permission test has returned, the file
\* it created is not in the store, whatever the outcome of the test.
C24_NoTestFileResidue ==
    (event.op = "test" /\ event.test_file # <<>>)
    => event.test_file[1] \notin Ids(drive)

-----------------------------------------------------------------------------
(* Concurrent resolutions (RaceSpec).                                      *)

\* C12: however the list and create calls of two callers that resolve the
\* same (school, date) interleave, the store never holds two folders of the
\* same name under the same parent.
C12_NoDuplicateSiblings ==
    \A i, j \in Folders(drive) :
        (drive[i].name = drive[j].name /\ drive[i].parent = drive[j].parent) => i = j

\* the places in the listing order of d of the folders called name under parent
Listed(d, name, parent) ==
    {i \in Folders(d) : d[i].name = name /\ d[i].parent = parent}

\* C15: when the store answers a caller's list call with more than one
\* folder of the segment's name under the parent, the caller goes on with
\* the first of them in the store's listing order and issues no create
\* call: the store, and with it the number of same-named siblings, stays as
\* it is.
C15_FirstOfDuplicates ==
    [][ \A s \in Racers :
          LET here == Listed(drive, PathOf(racers[s].args[1])[racers[s].seg],
                             racers[s].parent)
              first == drive[CHOOSE i \in here : \A j \in here : i <= j].id
          IN ( /\ racers[s].pc = "list"
               /\ racers'[s].calls # racers[s].calls
               /\ faults' = faults
               /\ Cardinality(here) > 1 )
             => /\ drive' = drive
                /\ racers'[s].pc # "create"
                /\ IF racers[s].seg = 4
                   THEN racers'[s].target = <<first>>
                   ELSE racers'[s].parent = first ]_vars

\* a caller whose list call returned two folders has gone on
C15_Witness == \E s \in Racers : racers[s].listed > 1

====
